---- MODULE Spec2Model ----
(***************************************************************************)
(* The VIAShifter keystroke encoder and bit-serial transmitter, in its two *)
(* variants:                                                               *)
(*   "kmk"    src/kmk/extensions/via.py          (self-clocked, '595 SR)   *)
(*   "tidbit" src/boards/nullbitsco/tidbit/via.py (clocked by host PHI2)   *)
(* Pin writes are single steps, so that the order of edges on SDA, SCL and *)
(* RDY is observable.                                                      *)
(***************************************************************************)
EXTENDS Integers, Sequences, FiniteSets, TLC

VARIABLES
    variant,       \* which of the two VIAShifter classes is running
    pc,            \* position of the (single) thread of control
    SDA, SCL, RDY, \* output pin values (RDY exists in the kmk variant only)
    active,        \* tidbit: self.active, written by checkClock
    ticks,         \* tidbit: n, the falling edges counted by checkClock
    elapsed,       \* tidbit: probe duration seen by checkClock, in 1/10 s
    keymap,        \* self.keymap: code -> <<unshifted, shifted>>
    _pressed,      \* kmk: self._pressed, the snapshot of held keys
    keys_pressed,  \* kmk: keyboard.keys_pressed, owned by the runtime
    delivered,     \* kmk: the held keys that were handed to sendKey since
                   \* they last went down (history of the calls)
    key,           \* the key argument of the sendKey call in progress
    modifiers,     \* local modifiers (kmk) or flags (tidbit) of sendKey
    v,             \* local v of sendKey / shiftByteOut
    byte,          \* the value shiftByteOut was entered with
    i,             \* iterations of shiftByteOut's for loop completed
    counting,      \* tidbit: the countio.Counter phi is open
    phi,           \* tidbit: phi.count
    clk,           \* level of the host clock line CLK
    ext,           \* host clock rising edges since the last pin write,
                   \* while phi is open and as far as MaxEdges
    edges,         \* SCL rising edges since sendKey / shiftByteOut was entered
    rdyPulses,     \* RDY rising edges since the call was entered
    diag,          \* print() lines since the call was entered
    ret            \* how the last call ended

vars == <<variant, pc, SDA, SCL, RDY, active, ticks, elapsed, keymap, _pressed,
          keys_pressed, delivered, key, modifiers, v, byte, i, counting, phi, clk,
          ext, edges, rdyPulses, diag, ret>>

-----------------------------------------------------------------------------
(* Bounds of the model *)

\* largest number of keys the runtime holds down at once
MaxPressed == 3
\* largest count phi reaches before the host clock waits for a reset
MaxEdges == 3
\* largest number of falling edges the startup probe can count
MaxTicks == 4
\* largest excess of the probe's duration over its sleeps, in 1/10 s
MaxJitter == 0
\* largest number of key lookups that find nothing while the table is built
MaxMissing == 1

-----------------------------------------------------------------------------
(* Python's integer operators on non-negative ints *)

Pow2(n) == IF n = 0 THEN 1 ELSE IF n = 1 THEN 2 ELSE IF n = 2 THEN 4
           ELSE IF n = 3 THEN 8 ELSE IF n = 4 THEN 16 ELSE IF n = 5 THEN 32
           ELSE IF n = 6 THEN 64 ELSE IF n = 7 THEN 128 ELSE 256

Bit(x, n) == (x \div Pow2(n)) % 2

\* x & m, for a mask m below 256
BitAnd(x, m) ==
    Bit(x, 0) * Bit(m, 0) + 2 * Bit(x, 1) * Bit(m, 1)
    + 4 * Bit(x, 2) * Bit(m, 2) + 8 * Bit(x, 3) * Bit(m, 3)
    + 16 * Bit(x, 4) * Bit(m, 4) + 32 * Bit(x, 5) * Bit(m, 5)
    + 64 * Bit(x, 6) * Bit(m, 6) + 128 * Bit(x, 7) * Bit(m, 7)

\* x | y, for x and y below 256
BitOr(x, y) == x + y - BitAnd(x, y)

RECURSIVE OrAll(_)
\* the |= accumulation over a collection of modifier codes
OrAll(S) == IF S = {} THEN 0
            ELSE LET m == CHOOSE m \in S : TRUE IN BitOr(m, OrAll(S \ {m}))

-----------------------------------------------------------------------------
(* Keys of the runtime (kmk.keys): a key is its code, its has_modifiers    *)
(* and whether it is an instance of ModifierKey.                           *)

Key(code, mods, ismod) == [code |-> code, mods |-> mods, ismod |-> ismod]

\* what KC.get answers for a name it does not know
None == [code |-> -2, mods |-> {}, ismod |-> FALSE]

FIRST_KMK_INTERNAL_KEY == 1000

\* codes of the modifier keys KC.LCTL, KC.LSFT, KC.LALT, KC.LGUI
LCTL == 1
LSFT == 2
LALT == 4
LGUI == 8

\* the US-layout characters typed with shift held, as <<character, key code>>
ShiftedChars ==
    { <<33, 30>>, <<64, 31>>, <<35, 32>>, <<36, 33>>, <<37, 34>>, <<94, 35>>,
      <<38, 36>>, <<42, 37>>, <<40, 38>>, <<41, 39>>, <<95, 45>>, <<43, 46>>,
      <<123, 47>>, <<125, 48>>, <<124, 49>>, <<58, 51>>, <<34, 52>>,
      <<126, 53>>, <<60, 54>>, <<62, 55>>, <<63, 56>> }

\* the US-layout punctuation typed without shift, as <<character, key code>>
PlainChars ==
    { <<32, 44>>, <<45, 45>>, <<61, 46>>, <<91, 47>>, <<93, 48>>, <<92, 49>>,
      <<59, 51>>, <<39, 52>>, <<96, 53>>, <<44, 54>>, <<46, 55>>, <<47, 56>> }

\* KC.get(chr(c)) for a printable character c
KCget(c) ==
    IF c \in 65..90 THEN Key(4 + (c - 65), {}, FALSE)
    ELSE IF c \in 97..122 THEN Key(4 + (c - 97), {}, FALSE)
    ELSE IF c \in 49..57 THEN Key(30 + (c - 49), {}, FALSE)
    ELSE IF c = 48 THEN Key(39, {}, FALSE)
    ELSE IF \E p \in ShiftedChars : p[1] = c
         THEN Key((CHOOSE p \in ShiftedChars : p[1] = c)[2], {LSFT}, FALSE)
    ELSE IF \E p \in PlainChars : p[1] = c
         THEN Key((CHOOSE p \in PlainChars : p[1] = c)[2], {}, FALSE)
    ELSE None

\* KC.get('NUMPAD_' + name) with the character it is mapped to, in the order
\* mapKeys visits them: / * - + \r . = and then 0..9
NumpadKeys ==
    << <<Key(84, {}, FALSE), 47>>, <<Key(85, {}, FALSE), 42>>,
       <<Key(86, {}, FALSE), 45>>, <<Key(87, {}, FALSE), 43>>,
       <<Key(88, {}, FALSE), 13>>, <<Key(99, {}, FALSE), 46>>,
       <<Key(133, {}, FALSE), 61>>, <<Key(98, {}, FALSE), 48>> >>
    \o [n \in 1..9 |-> <<Key(88 + n, {}, FALSE), 48 + n>>]

\* KC.BKSP, TAB, ENTER, ESC, DEL, LEFT, DOWN, UP, RIGHT with their bytes
SpecialKeys ==
    << <<Key(42, {}, FALSE), 8>>, <<Key(43, {}, FALSE), 9>>,
       <<Key(40, {}, FALSE), 13>>, <<Key(41, {}, FALSE), 27>>,
       <<Key(76, {}, FALSE), 127>>, <<Key(80, {}, FALSE), 8>>,
       <<Key(81, {}, FALSE), 10>>, <<Key(82, {}, FALSE), 11>>,
       <<Key(79, {}, FALSE), 21>> >>

-----------------------------------------------------------------------------
(* Module constants and helpers of the two via.py files *)

MOD_CTL == 17
MOD_SFT == 34
MOD_ALT(var) == IF var = "kmk" THEN 68 ELSE 51
MOD_CMD(var) == IF var = "kmk" THEN 136 ELSE 68

\* tidbit: modifierFlags(key)
modifierFlags(k) == OrAll(k.mods)

\* isShifted(key): 1 when one of the key's modifiers is a shift
isShifted(k) == IF \E m \in k.mods : BitAnd(m, MOD_SFT) # 0 THEN 1 ELSE 0

\* an observation that overwrites both slots of an entry
mapKey_overwrite(km, k, ascii) ==
    IF k.code \notin DOMAIN km
    THEN km @@ (k.code :> <<ascii, ascii>>)
    ELSE [km EXCEPT ![k.code] = <<ascii, ascii>>]

\* mapKey: the table after key k was observed with byte ascii; the
\* unpacking (_, _) = entry leaves _ bound to the entry's second element
mapKey(km, k, ascii) ==
    IF k.code \notin DOMAIN km
    THEN km @@ (k.code :> <<ascii, ascii>>)
    ELSE [km EXCEPT ![k.code] =
             IF isShifted(k) = 1 THEN <<km[k.code][2], ascii>>
             ELSE <<ascii, km[k.code][2]>>]

\* mapKeys, first loop: chr(32)..chr(126) with the key of each; a character
\* KC does not know is skipped
printable ==
    SelectSeq([n \in 1..95 |-> <<KCget(n + 31), n + 31>>],
              LAMBDA o : o[1] # None)

\* the calls of mapKey that mapKeys makes, in its order
observations == printable \o NumpadKeys \o SpecialKeys

RECURSIVE mapRange(_, _, _, _)
\* mapKey applied to list[lo], ..., list[hi] in this order; the table of the
\* first half is worked out (it is never empty) before the second is begun
mapRange(km, list, lo, hi) ==
    IF lo > hi THEN km
    ELSE IF lo = hi THEN mapKey(km, list[lo][1], list[lo][2])
    ELSE LET first == mapRange(km, list, lo, (lo + hi) \div 2)
         IN  IF DOMAIN first = {} THEN first
             ELSE mapRange(first, list, (lo + hi) \div 2 + 1, hi)

\* mapKeys: the table built at construction
mapKeys == mapRange(<<>>, observations, 1, Len(observations))

-----------------------------------------------------------------------------
(* sendKey's arithmetic *)

\* ModifierKey.FAKE_CODE, the code of a modifier key that is only a carrier
FAKE_CODE == -1

\* a held key that adds its modifiers whether or not it is the key sent
heldModifiers_every(k, theKey) ==
    IF k.mods # {} THEN k.mods
    ELSE IF k.ismod /\ k.code # FAKE_CODE THEN {k.code}
    ELSE {}

\* kmk: what one held key k adds to modifiers while sendKey(key) runs
heldModifiers(k, theKey) ==
    IF k # theKey /\ ~k.ismod THEN {}
    ELSE IF k.mods # {} THEN k.mods
    ELSE IF k.ismod /\ k.code # FAKE_CODE THEN {k.code}
    ELSE {}

\* kmk: modifiers, accumulated over self._pressed
modifiersOf(theKey, held) ==
    OrAll(UNION {heldModifiers(k, theKey) : k \in held})

\* kmk: vs[1 if (modifiers & MOD_SFT) else 0]
selectK(vs, mods) == vs[(IF BitAnd(mods, MOD_SFT) # 0 THEN 1 ELSE 0) + 1]

\* tidbit: vs[isShifted(key)]
selectT(vs, k) == vs[isShifted(k) + 1]

\* kmk: whether the control clamp is applied
clampsK(mods, b) == BitAnd(mods, MOD_CTL) # 0

\* tidbit: whether the control clamp is applied
clampsT(flags, b) == BitAnd(flags, MOD_CTL) # 0 /\ BitAnd(b, 192) = 64

\* whether cmd or alt sets the high bit
setsHigh(var, mods) == BitAnd(mods, BitOr(MOD_CMD(var), MOD_ALT(var))) # 0

\* kmk: the byte sendKey hands to shiftByteOut for a mapped key
encodeK(vs, mods) ==
    LET v0 == selectK(vs, mods)
        v1 == IF clampsK(mods, v0) THEN BitAnd(v0, 31) ELSE v0
    IN  IF setsHigh("kmk", mods) THEN BitOr(v1, 128) ELSE v1

\* tidbit: the byte sendKey hands to shiftByteOut for a mapped key
encodeT(vs, k) ==
    LET v0 == selectT(vs, k)
        flags == modifierFlags(k)
        v1 == IF clampsT(flags, v0) THEN BitAnd(v0, 31) ELSE v0
    IN  IF setsHigh("tidbit", flags) THEN BitOr(v1, 128) ELSE v1

\* kmk: the keys sendKey returns on at once
filtered(k) == k.code >= FIRST_KMK_INTERNAL_KEY \/ k.ismod

\* a sendKey that does not look at self.active
gated_never(act) == FALSE

\* tidbit: the test sendKey returns on at once: not self.active
gated(act) == ~act

\* a lookup that answers a NUL entry for a code the table lacks
lookup_default(km, code) == IF code \in DOMAIN km THEN km[code] ELSE <<0, 0>>

\* self.keymap.get(code): the entry, or <<>> for Python's None
lookup(km, code) == IF code \in DOMAIN km THEN km[code] ELSE <<>>

\* a probe that looks at the edge count only
checkClock_edges(el, n) == n > 3

\* tidbit: self.active as checkClock sets it; elapsed in 1/10 s
checkClock(el, n) == el > 10 /\ n > 3

\* the sleeps of debug_leds(slow=True), in 1/10 s
ProbeSleep == 3 * 2 * 2 + 3 * (2 + 2)

-----------------------------------------------------------------------------
(* The keys of the model *)

KC_A == Key(4, {}, FALSE)
KC_QUES == Key(56, {LSFT}, FALSE)
KC_F1 == Key(58, {}, FALSE)
KC_MO == Key(FIRST_KMK_INTERNAL_KEY, {}, FALSE)
KC_LCTL == Key(LCTL, {}, TRUE)
KC_LSFT == Key(LSFT, {}, TRUE)
KC_LALT == Key(LALT, {}, TRUE)
KC_LGUI == Key(LGUI, {}, TRUE)
\* a modifier key that is only a carrier: its code is FAKE_CODE
KC_FAKE == Key(FAKE_CODE, {}, TRUE)

\* kmk: the keys the runtime can hold down
KeysK ==
    {KC_A, KC_QUES, KC_F1, KC_MO, KC_LCTL, KC_LSFT, KC_LALT, KC_LGUI, KC_FAKE}

\* tidbit: the keys sendKey is called with; modifiers ride on the key
KeysT ==
    {Key(c, m, FALSE) : c \in {4, 56, 58, FIRST_KMK_INTERNAL_KEY},
                        m \in SUBSET {LCTL, LSFT, LALT, LGUI}}
    \cup {KC_LSFT}

Bytes == 0..255

-----------------------------------------------------------------------------
(* The state after __init__ *)

Init ==
    /\ variant \in {"kmk", "tidbit"}
    /\ pc = "idle"
    /\ SDA = FALSE /\ SCL = FALSE /\ RDY = FALSE
    /\ ticks \in (IF variant = "tidbit" THEN 0..MaxTicks ELSE {0})
    /\ elapsed \in (IF variant = "tidbit"
                    THEN {ProbeSleep + j : j \in 0..MaxJitter} ELSE {0})
    /\ active = (IF variant = "tidbit" THEN checkClock(elapsed, ticks)
                 ELSE TRUE)
    /\ keymap = mapKeys
    /\ _pressed = {}
    /\ keys_pressed = {} /\ delivered = {}
    /\ key = None /\ modifiers = 0
    /\ v = 0 /\ byte = 0 /\ i = 0
    /\ counting = FALSE /\ phi = 0 /\ clk = FALSE /\ ext = 0
    /\ edges = <<>> /\ rdyPulses = 0 /\ diag = <<>>
    /\ ret = "none"

config == <<variant, active, ticks, elapsed, keymap>>
pins == <<SDA, SCL, RDY>>
locals == <<modifiers, v, byte, i>>
clock == <<counting, phi, clk, ext>>
seen == <<edges, rdyPulses, diag>>

\* a call is entered: nothing was observed of it yet
Entered ==
    /\ edges' = <<>> /\ rdyPulses' = 0 /\ diag' = <<>>
    /\ modifiers' = 0 /\ v' = 0 /\ byte' = 0 /\ i' = 0

\* the call returns to the runtime
Return(how) == pc' = "idle" /\ ret' = how

-----------------------------------------------------------------------------
(* The runtime (kmk): keys go down and up between two after_hid_send calls *)

Press(k) ==
    /\ variant = "kmk" /\ pc = "idle"
    /\ k \notin keys_pressed
    /\ Cardinality(keys_pressed) < MaxPressed
    /\ keys_pressed' = keys_pressed \cup {k}
    /\ key' = None /\ ret' = "none" /\ Entered
    /\ UNCHANGED <<config, pins, clock, pc, _pressed, delivered>>

Release(k) ==
    /\ variant = "kmk" /\ pc = "idle"
    /\ k \in keys_pressed
    /\ keys_pressed' = keys_pressed \ {k}
    /\ delivered' = delivered \ {k}
    /\ key' = None /\ ret' = "none" /\ Entered
    /\ UNCHANGED <<config, pins, clock, pc, _pressed>>

\* a snapshot that is left as it was
snapshot_stale(kp, old) == old

\* self._pressed = set(self._kbd.keys_pressed)
snapshot(kp, old) == kp

\* a choice among all held keys, the ones seen before included
candidates_all(kp, old) == kp

\* the keys list(self._kbd.keys_pressed - self._pressed)[0] is taken from
candidates(kp, old) == kp \ old

\* kmk: after_hid_send up to its call of sendKey
after_hid_send ==
    /\ variant = "kmk" /\ pc = "idle"
    /\ Entered
    /\ _pressed' = snapshot(keys_pressed, _pressed)
    /\ IF Cardinality(keys_pressed) > Cardinality(_pressed)
       THEN /\ \E k \in candidates(keys_pressed, _pressed) : key' = k
            /\ delivered' = delivered \cup {key'}
            /\ pc' = "sendKey" /\ ret' = "running"
       ELSE key' = None /\ Return("nokey") /\ UNCHANGED delivered
    /\ UNCHANGED <<config, pins, clock, keys_pressed>>

\* tidbit: the runtime calls sendKey(k)
callSendKey(k) ==
    /\ variant = "tidbit" /\ pc = "idle"
    /\ Entered
    /\ key' = k /\ pc' = "sendKey" /\ ret' = "running"
    /\ UNCHANGED <<config, pins, clock, _pressed, keys_pressed, delivered>>

-----------------------------------------------------------------------------
(* sendKey up to its call of shiftByteOut (kmk) or debug_leds (tidbit) *)

sendKeyK ==
    /\ variant = "kmk" /\ pc = "sendKey"
    /\ IF filtered(key)
       THEN Return("filtered") /\ UNCHANGED <<modifiers, v, diag>>
       ELSE /\ modifiers' = modifiersOf(key, _pressed)
            /\ IF lookup(keymap, key.code) = <<>>
               THEN Return("unmapped") /\ diag' = <<"nomap">> /\ UNCHANGED v
               ELSE /\ v' = encodeK(lookup(keymap, key.code),
                                    modifiersOf(key, _pressed))
                    /\ diag' = <<"mapping", "sending">>
                    /\ pc' = "shift" /\ UNCHANGED ret
    /\ UNCHANGED <<config, pins, clock, _pressed, keys_pressed, delivered, key,
                   byte, i, edges, rdyPulses>>

sendKeyT ==
    /\ variant = "tidbit" /\ pc = "sendKey"
    /\ IF gated(active)
       THEN Return("inactive") /\ UNCHANGED <<modifiers, v, diag>>
       ELSE IF lookup(keymap, key.code) = <<>>
       THEN /\ Return("unmapped") /\ diag' = <<"nomap">>
            /\ UNCHANGED <<modifiers, v>>
       ELSE /\ modifiers' = modifierFlags(key)
            /\ v' = encodeT(lookup(keymap, key.code), key)
            /\ diag' = <<"sending">>
            /\ pc' = "leds_sda_hi" /\ UNCHANGED ret
    /\ UNCHANGED <<config, pins, clock, _pressed, keys_pressed, delivered, key,
                   byte, i, edges, rdyPulses>>

-----------------------------------------------------------------------------
(* Pin writes *)

\* p.value = val on SCL by routine `by`; a rising edge samples SDA
writeSCL(val, by) ==
    /\ SCL' = val
    /\ edges' = IF val /\ ~SCL THEN Append(edges, [by |-> by, sda |-> SDA])
                ELSE edges

\* a latch line that is raised and never lowered
writeRDY_stuck(val) ==
    /\ RDY' = TRUE
    /\ rdyPulses' = IF ~RDY THEN rdyPulses + 1 ELSE rdyPulses

\* RDY.value = val; a rising edge is one latch pulse
writeRDY(val) ==
    /\ RDY' = val
    /\ rdyPulses' = IF val /\ ~RDY THEN rdyPulses + 1 ELSE rdyPulses

\* tidbit: debug_leds(), the flash sendKey makes before it shifts
debug_leds ==
    /\ variant = "tidbit"
    /\ \/ /\ pc = "leds_sda_hi" /\ SDA' = TRUE /\ pc' = "leds_scl_hi"
          /\ UNCHANGED <<SCL, edges>>
       \/ /\ pc = "leds_scl_hi" /\ writeSCL(TRUE, "leds")
          /\ pc' = "leds_sda_lo" /\ UNCHANGED SDA
       \/ /\ pc = "leds_sda_lo" /\ SDA' = FALSE /\ pc' = "leds_scl_lo"
          /\ UNCHANGED <<SCL, edges>>
       \/ /\ pc = "leds_scl_lo" /\ writeSCL(FALSE, "leds")
          /\ pc' = "shift" /\ UNCHANGED SDA
    /\ UNCHANGED <<config, RDY, clock, _pressed, keys_pressed, delivered, key,
                   locals, rdyPulses, diag, ret>>

-----------------------------------------------------------------------------
(* shiftByteOut *)

\* the number of iterations of shiftByteOut's for loop
NBits == 8

\* edges the first busy-wait needs: while not phi.count
Wait1 == 1

\* a second wait that is as short as the first
Wait2_short == Wait1

\* edges the second busy-wait needs: while phi.count < 2
Wait2 == 2

\* the lowest bit of v instead of bit 7
msb_lsb(x) == BitAnd(x, 1) # 0

\* the bit shiftByteOut puts on SDA: bool(v & 0x80)
msb(x) == BitAnd(x, 128) # 0

\* a loop that runs once more: range(9)
loopDone_late(n) == n >= NBits + 1

\* whether the for loop is over after n iterations
loopDone(n) == n >= NBits

\* entry: tidbit opens the counter phi on CLK
shiftEnter ==
    /\ pc = "shift"
    /\ byte' = v /\ i' = 0
    /\ IF variant = "tidbit"
       THEN counting' = TRUE /\ phi' = 0 /\ ext' = 0 /\ UNCHANGED clk
       ELSE UNCHANGED clock
    /\ pc' = "sda"
    /\ UNCHANGED <<config, pins, _pressed, keys_pressed, delivered, key,
                   modifiers, v, seen, ret>>

\* self.SDA.value = bool(v & 0x80); v <<= 1
shiftSDA ==
    /\ pc = "sda"
    /\ SDA' = msb(v) /\ v' = 2 * v
    /\ ext' = 0
    /\ pc' = IF variant = "tidbit" THEN "reset1" ELSE "scl_hi"
    /\ UNCHANGED <<config, SCL, RDY, _pressed, keys_pressed, delivered, key,
                   modifiers, byte, i, counting, phi, clk, seen, ret>>

\* tidbit: phi.reset() before each of the two busy-waits
shiftReset ==
    /\ pc \in {"reset1", "reset2"}
    /\ phi' = 0
    /\ pc' = IF pc = "reset1" THEN "wait1" ELSE "wait2"
    /\ UNCHANGED <<config, pins, _pressed, keys_pressed, delivered, key,
                   locals, counting, clk, ext, seen, ret>>

\* tidbit: a busy-wait is left once phi.count is large enough
shiftWait ==
    /\ \/ pc = "wait1" /\ phi >= Wait1 /\ pc' = "scl_hi"
       \/ pc = "wait2" /\ phi >= Wait2 /\ pc' = "scl_lo"
    /\ UNCHANGED <<config, pins, _pressed, keys_pressed, delivered, key,
                   locals, clock, seen, ret>>

\* self.SCL.value = True
shiftSCLHigh ==
    /\ pc = "scl_hi"
    /\ writeSCL(TRUE, "shift")
    /\ ext' = 0
    /\ pc' = IF variant = "tidbit" THEN "reset2" ELSE "scl_lo"
    /\ UNCHANGED <<config, SDA, RDY, _pressed, keys_pressed, delivered, key,
                   locals, counting, phi, clk, rdyPulses, diag, ret>>

\* self.SCL.value = False, the end of one iteration; tidbit closes phi
\* when the loop is left
shiftSCLLow ==
    /\ pc = "scl_lo"
    /\ writeSCL(FALSE, "shift")
    /\ i' = i + 1
    /\ IF loopDone(i + 1)
       THEN pc' = "sda_clear" /\ counting' = FALSE /\ phi' = 0 /\ ext' = 0
       ELSE pc' = "sda" /\ ext' = 0 /\ UNCHANGED <<counting, phi>>
    /\ UNCHANGED <<config, SDA, RDY, _pressed, keys_pressed, delivered, key,
                   modifiers, v, byte, clk, rdyPulses, diag, ret>>

\* a return that leaves SDA at the last bit shifted
shiftClear_keep ==
    /\ pc = "sda_clear"
    /\ SDA' = SDA
    /\ IF variant = "tidbit" THEN Return("sent")
       ELSE pc' = "rdy_hi" /\ UNCHANGED ret
    /\ UNCHANGED <<config, SCL, RDY, _pressed, keys_pressed, delivered, key,
                   locals, clock, seen>>

\* self.SDA.value = False after the loop; the tidbit variant returns here
shiftClear ==
    /\ pc = "sda_clear"
    /\ SDA' = FALSE
    /\ IF variant = "tidbit" THEN Return("sent")
       ELSE pc' = "rdy_hi" /\ UNCHANGED ret
    /\ UNCHANGED <<config, SCL, RDY, _pressed, keys_pressed, delivered, key,
                   locals, clock, seen>>

\* kmk: self.RDY.value = True, then False, and shiftByteOut returns
shiftLatch ==
    /\ \/ pc = "rdy_hi" /\ writeRDY(TRUE) /\ pc' = "rdy_lo" /\ UNCHANGED ret
       \/ pc = "rdy_lo" /\ writeRDY(FALSE) /\ Return("sent")
    /\ UNCHANGED <<config, SDA, SCL, _pressed, keys_pressed, delivered, key,
                   locals, clock, edges, diag>>

shiftByteOut ==
    \/ shiftEnter \/ shiftSDA \/ shiftReset \/ shiftWait
    \/ shiftSCLHigh \/ shiftSCLLow \/ shiftClear \/ shiftLatch

-----------------------------------------------------------------------------
(* The host clock CLK (tidbit): it runs or stalls as it pleases *)

clockRise ==
    /\ variant = "tidbit" /\ ~clk
    /\ clk' = TRUE
    /\ IF counting
       THEN /\ phi < MaxEdges
            /\ phi' = phi + 1
            /\ ext' = IF ext < MaxEdges THEN ext + 1 ELSE ext
       ELSE UNCHANGED <<phi, ext>>
    /\ UNCHANGED <<config, pins, pc, _pressed, keys_pressed, delivered, key,
                   locals, counting, seen, ret>>

clockFall ==
    /\ variant = "tidbit" /\ clk
    /\ clk' = FALSE
    /\ UNCHANGED <<config, pins, pc, _pressed, keys_pressed, delivered, key,
                   locals, counting, phi, ext, seen, ret>>

-----------------------------------------------------------------------------
(* The encoder driven by its runtime *)

Program == sendKeyK \/ sendKeyT \/ debug_leds \/ shiftByteOut

Next ==
    \/ \E k \in KeysK : Press(k)
    \/ \E k \in KeysK : Release(k)
    \/ after_hid_send
    \/ \E k \in KeysT : callSendKey(k)
    \/ Program
    \/ clockRise
    \/ clockFall

Spec == Init /\ [][Next]_vars

(* The transmitter alone: shiftByteOut called with any byte *)

callShift(b) ==
    /\ pc = "idle"
    /\ edges' = <<>> /\ rdyPulses' = 0 /\ diag' = <<>>
    /\ modifiers' = 0 /\ v' = b /\ byte' = 0 /\ i' = 0
    /\ key' = None /\ pc' = "shift" /\ ret' = "running"
    /\ UNCHANGED <<config, pins, clock, _pressed, keys_pressed, delivered>>

NextShift ==
    \/ \E b \in Bytes : callShift(b)
    \/ shiftByteOut
    \/ clockRise
    \/ clockFall

\* shiftByteOut runs only in an encoder whose probe found the clock live
InitShift == Init /\ active /\ ticks \in {0, MaxTicks} /\ elapsed \in {0, ProbeSleep}

SpecShift == InitShift /\ [][NextShift]_vars

\* bytes of every bit pattern at the ends: all clear, 'A', alternating, all set
SampleBytes == {0, 65, 165, 255}

NextSample ==
    \/ \E b \in SampleBytes : callShift(b)
    \/ shiftByteOut
    \/ clockRise
    \/ clockFall

(* The interpreter runs the call it is in: a statement that can be executed *)
(* is executed. Nothing is assumed of the caller or of the host clock.     *)
FairShift == InitShift /\ [][NextSample]_vars /\ WF_vars(shiftByteOut)

-----------------------------------------------------------------------------
(* Construction: __init__ from its call of mapKeys on. What KC answers to  *)
(* a lookup is the runtime's: the key of the US layout, or nothing.        *)

\* the characters of mapKeys' first loop: range(32, 127)
PrintableCount == 126 - 32 + 1

\* the lookups mapKeys makes, in its order, each with the key it stands for
\* and the byte it is mapped to
requests ==
    [n \in 1..PrintableCount |-> <<KCget(n + 31), n + 31>>]
    \o NumpadKeys \o SpecialKeys

\* durations the probe can measure, in 1/10 s: monotonic() is the runtime's
\* clock, so both sides of the threshold are taken besides the sleeps' sum
ProbeTimes == {0, 10, 11} \cup {ProbeSleep + j : j \in 0..MaxJitter}

InitMap ==
    /\ variant \in {"kmk", "tidbit"}
    /\ pc = "mapKeys"
    /\ SDA = FALSE /\ SCL = FALSE /\ RDY = FALSE
    /\ ticks = 0 /\ elapsed = 0
    /\ active = (variant = "kmk")
    /\ keymap = <<>>
    /\ _pressed = {}
    /\ keys_pressed = {} /\ delivered = {}
    /\ key = None /\ modifiers = 0
    /\ v = 0 /\ byte = 0 /\ i = 0
    /\ counting = FALSE /\ phi = 0 /\ clk = FALSE /\ ext = 0
    /\ edges = <<>> /\ rdyPulses = 0 /\ diag = <<>>
    /\ ret = "none"

\* one iteration of one of mapKeys' three loops: the lookup and mapKey. Only
\* the first loop tests what the lookup answered; in the other two mapKey
\* reads key.code of whatever it is given
mapKeysStep ==
    /\ pc = "mapKeys" /\ i < Len(requests)
    /\ \E got \in {requests[i + 1][1]}
                  \cup (IF Len(diag) < MaxMissing THEN {None} ELSE {}) :
          IF got # None
          THEN /\ keymap' = mapKey(keymap, got, requests[i + 1][2])
               /\ i' = i + 1
               /\ UNCHANGED <<pc, diag, ret>>
          ELSE IF i + 1 <= PrintableCount
          THEN /\ diag' = Append(diag, "nokey")
               /\ i' = i + 1
               /\ UNCHANGED <<pc, keymap, ret>>
          ELSE /\ pc' = "raised" /\ ret' = "AttributeError"
               /\ UNCHANGED <<keymap, i, diag>>
    /\ UNCHANGED <<variant, active, ticks, elapsed, pins, clock, _pressed,
                   keys_pressed, delivered, key, modifiers, v, byte, edges,
                   rdyPulses>>

\* mapKeys returns: kmk flashes its Morse sign on SDA and is constructed,
\* tidbit goes on to probe the clock
mapKeysDone ==
    /\ pc = "mapKeys" /\ i = Len(requests)
    /\ IF variant = "kmk" THEN pc' = "idle" /\ ret' = "built"
       ELSE pc' = "checkClock" /\ UNCHANGED ret
    /\ UNCHANGED <<config, pins, clock, _pressed, keys_pressed, delivered, key,
                   locals, seen>>

\* tidbit: checkClock, with the count and the duration it measured; the
\* slow flash of debug_leds leaves SDA and SCL low
checkClockStep ==
    /\ variant = "tidbit" /\ pc = "checkClock"
    /\ \E n \in 0..MaxTicks, el \in ProbeTimes :
          /\ ticks' = n /\ elapsed' = el
          /\ active' = checkClock(el, n)
    /\ diag' = Append(diag, "active")
    /\ pc' = "idle" /\ ret' = "built"
    /\ UNCHANGED <<variant, keymap, pins, clock, _pressed, keys_pressed,
                   delivered, key, locals, edges, rdyPulses>>

NextMap == mapKeysStep \/ mapKeysDone \/ checkClockStep

SpecMap == InitMap /\ [][NextMap]_vars

-----------------------------------------------------------------------------
(* What a call that has returned was about *)

\* a call of sendKey or shiftByteOut shifted a byte out and returned
Sent == pc = "idle" /\ ret = "sent"

\* the modifier mask sendKey worked with
mask == IF variant = "kmk" THEN modifiersOf(key, _pressed)
        ELSE modifierFlags(key)

\* the categories of the modifier bitmask rrrr llll as documented: each
\* nibble holds CMD (8), ALT (4), SFT (2), CTL (1)
held(m, nibbleBit) == BitAnd(m, 17 * nibbleBit) # 0

\* the table byte sendKey selected for the key
selected == keymap[key.code][(IF held(mask, 2) THEN 1 ELSE 0) + 1]

\* the SDA values at the SCL rising edges made by shiftByteOut
shifted == SelectSeq(edges, LAMBDA e : e.by = "shift")

-----------------------------------------------------------------------------
\* C1: one call of shiftByteOut(v) makes exactly 8 rising edges on SCL, and
\* SDA at the k-th of them (k = 0..7) is bit 7-k of v, in both variants and
\* for every byte v in 0..255.
C1_MsbFirst ==
    /\ Len(edges) <= NBits
    /\ \A k \in 1..Len(edges) :
          edges[k].by = "shift" /\ edges[k].sda = (Bit(byte, NBits - k) = 1)
    /\ Sent => Len(edges) = NBits

C1_Witness ==
    variant = "tidbit" /\ Sent /\ byte = 165 /\ Len(edges) = NBits

\* C2: the control clamp is applied iff the mask has the control bit and the
\* selected byte's top two bits are 01: the byte sent, bit 7 aside, is the
\* selected byte & 0x1F in that case and the selected byte otherwise.
C2_ClampIffTop01 ==
    (Sent /\ key # None) =>
        byte % 128 = IF held(mask, 1) /\ BitAnd(selected, 192) = 64
                     THEN BitAnd(selected, 31) ELSE selected

\* C3: bit 7 of the byte sent is set when alt or command is held and clear
\* when neither is, whether or not the control clamp was applied.
C3_HighBitIffAltOrCmd ==
    (Sent /\ key # None) =>
        ((Bit(byte, 7) = 1) <=> (held(mask, 4) \/ held(mask, 8)))

\* C4: the key code of 'a' sends 0x61 with no modifier, 0x41 with shift
\* held and 0x01 with shift and control held, in both variants.
C4_EndToEndA ==
    (Sent /\ key # None /\ key.code = KCget(97).code
          /\ ~held(mask, 4) /\ ~held(mask, 8)) =>
        /\ (~held(mask, 1) /\ ~held(mask, 2)) => byte = 97
        /\ (~held(mask, 1) /\ held(mask, 2)) => byte = 65
        /\ (held(mask, 1) /\ held(mask, 2)) => byte = 1

\* C5: in the tidbit variant, once the startup probe left active false, no
\* sendKey call toggles a line, shifts a byte or prints, whatever the host
\* clock does later; and active never changes after startup.
C5_SilentWhenNotLive ==
    /\ [][active' = active]_vars
    /\ [][(variant = "tidbit" /\ ~active) =>
             /\ SDA' = SDA /\ SCL' = SCL
             /\ edges' = <<>> /\ diag' = <<>>
             /\ pc' \in {"idle", "sendKey"}]_vars

C5_Witness ==
    /\ variant = "tidbit" /\ ~active /\ clk
    /\ pc = "idle" /\ ret = "inactive" /\ key = Key(4, {LSFT}, FALSE)

\* shiftByteOut has started a byte and has not returned
InShift ==
    pc \in {"sda", "reset1", "wait1", "scl_hi", "reset2", "wait2", "scl_lo",
            "sda_clear", "rdy_hi", "rdy_lo"}

\* C6 as claimed: once shiftByteOut has started a byte it returns to Idle,
\* after exactly 8 iterations, in both variants and whatever the host clock
\* does.
C6_AlwaysCompletes ==
    /\ [](Sent => i = NBits)
    /\ InShift ~> (pc = "idle")

\* C6 as amended: the self-clocked shiftByteOut always returns, and the
\* externally clocked one returns if the host clock keeps making rising
\* edges; either returns after exactly 8 iterations, and the only places
\* where it does not move on are the two busy-waits short of edges.
C6_CompletesWhileClockRuns ==
    /\ [](Sent => i = NBits)
    /\ (variant = "kmk" /\ InShift) ~> (pc = "idle")
    /\ []<><<clockRise>>_vars => (InShift ~> (pc = "idle"))
    /\ [](InShift /\ ~(ENABLED shiftByteOut) =>
             \/ pc = "wait1" /\ phi < Wait1
             \/ pc = "wait2" /\ phi < Wait2)

C6_Witness ==
    variant = "tidbit" /\ Sent /\ i = NBits /\ byte = 165 /\ clk

\* C7: in the externally clocked shiftByteOut, SCL goes high only when SDA
\* holds the bit of this iteration and at least one rising edge of the host
\* clock has come since SDA was driven; SCL goes low only when at least two
\* more have come since SCL went high; SDA does not change while SCL is
\* high.
C7_ClockedHandshake ==
    [][(variant = "tidbit" /\ InShift) =>
          /\ (~SCL /\ SCL') =>
                 /\ ext >= 1
                 /\ SDA = (Bit(byte, NBits - 1 - i) = 1)
          /\ (SCL /\ ~SCL') => ext >= 2
          /\ SCL => SDA' = SDA]_vars

C7_Witness ==
    /\ variant = "tidbit" /\ pc = "sda_clear" /\ byte = 165
    /\ Len(edges) = NBits /\ ~SCL

\* C8: in the self-clocked shiftByteOut, RDY is low during the 8 bit
\* shifts; after the 8th clock pulse SDA is cleared and only then RDY goes
\* high and low again: one RDY pulse per byte, after its 8 clock pulses
\* and over before shiftByteOut returns.
C8_LatchAfterEightBits ==
    variant = "kmk" =>
        /\ RDY => (pc = "rdy_lo" /\ Len(shifted) = NBits /\ ~SDA /\ ~SCL
                   /\ rdyPulses = 1)
        /\ pc \in {"shift", "sda", "scl_hi", "scl_lo", "sda_clear", "rdy_hi"}
              => (~RDY /\ rdyPulses = 0)
        /\ pc = "rdy_hi" => (~SDA /\ ~SCL /\ Len(shifted) = NBits)
        /\ Sent => (~RDY /\ rdyPulses = 1 /\ Len(shifted) = NBits)

C8_Witness ==
    variant = "kmk" /\ pc = "rdy_lo" /\ RDY /\ byte = 97 /\ key = KC_A

\* a step that is one call of after_hid_send up to its call of sendKey
AfterHidSendStep ==
    variant = "kmk" /\ pc = "idle" /\ ret' \in {"running", "nokey"}

\* C9: every key newly pressed between two after_hid_send calls (in
\* keyboard.keys_pressed and not in _pressed) is handed to sendKey by the
\* second call, also when several keys went down or another one went up.
C9_EveryNewKeyDelivered ==
    [][AfterHidSendStep =>
          \A k \in keys_pressed \ _pressed : pc' = "sendKey" /\ key' = k]_vars

\* a call of sendKey has returned
SendKeyReturned ==
    pc = "idle" /\ ret \in {"inactive", "filtered", "unmapped", "sent"}

\* C10 as claimed: for a key whose code is not in the table, sendKey toggles
\* no line, sends no byte, prints exactly one diagnostic and leaves the
\* table as it was built.
C10_UnmappedOneDiagnostic ==
    (SendKeyReturned /\ key.code \notin DOMAIN keymap) =>
        /\ edges = <<>> /\ rdyPulses = 0
        /\ diag = <<"nomap">>
        /\ keymap = mapKeys

\* sendKey(k) gets as far as looking k up in the table
reachesLookup(k) ==
    IF variant = "kmk" THEN ~filtered(k) ELSE active

\* C10 as amended: for a key whose code is not in the table and with which
\* sendKey gets as far as the lookup (kmk: the code is below
\* FIRST_KMK_INTERNAL_KEY and the key is no ModifierKey; tidbit: active is
\* true), sendKey returns at once having written no pin, sent no byte,
\* printed exactly one diagnostic and changed nothing of the encoder.
C10_UnmappedAfterFilter ==
    [][(pc = "sendKey" /\ pc' # pc /\ key.code \notin DOMAIN keymap
           /\ reachesLookup(key))
          => /\ pc' = "idle" /\ ret' = "unmapped"
             /\ diag' = <<"nomap">>
             /\ edges' = <<>> /\ rdyPulses' = 0
             /\ UNCHANGED <<SDA, SCL, RDY, keymap, active, _pressed,
                            keys_pressed>>]_vars

C10_Witness ==
    /\ variant = "tidbit" /\ active
    /\ pc = "idle" /\ ret = "unmapped" /\ key = Key(58, {LCTL}, FALSE)
    /\ diag = <<"nomap">>

-----------------------------------------------------------------------------
\* C11: for a key whose code is at or above FIRST_KMK_INTERNAL_KEY, or that
\* is a ModifierKey, sendKey returns having toggled no line, sent no byte
\* and printed no diagnostic, in both variants.
C11_InternalOrModifierIgnored ==
    (SendKeyReturned
        /\ (key.code >= FIRST_KMK_INTERNAL_KEY \/ key.ismod)) =>
        /\ edges = <<>> /\ rdyPulses = 0
        /\ diag = <<>>

\* C12 as claimed: the mask of the self-clocked sendKey is the OR, over
\* every key of the held set, of the key's has_modifiers if it is a plain
\* key, or of its code if it is a ModifierKey whose code is not FAKE_CODE.
C12_MaskOverEveryHeldKey ==
    (variant = "kmk" /\ pc = "idle" /\ ret \in {"unmapped", "sent"}) =>
        modifiers =
            OrAll(UNION {IF ~k.ismod THEN k.mods
                         ELSE IF k.code # FAKE_CODE THEN {k.code}
                         ELSE {} : k \in _pressed})

\* C12 as amended: the mask is the OR over the key being sent and over the
\* ModifierKeys of the held set (other plain keys add nothing) of the key's
\* has_modifiers if it has any, or else of its code if it is a ModifierKey
\* whose code is not FAKE_CODE; every sendKey call that passes the filter
\* works it out anew from the held set of that call.
C12_MaskOverKeyAndModifiers ==
    [][(variant = "kmk" /\ pc = "sendKey" /\ pc' # pc /\ ~filtered(key)) =>
          modifiers' =
              OrAll(UNION {IF k.mods # {} THEN k.mods
                           ELSE IF k.ismod /\ k.code # FAKE_CODE
                           THEN {k.code}
                           ELSE {} : k \in {h \in _pressed :
                                               h = key \/ h.ismod}})]_vars

C12_Witness ==
    /\ variant = "kmk" /\ Sent /\ key = KC_A
    /\ _pressed = {KC_A, KC_QUES, KC_FAKE}
    /\ modifiers = 0 /\ byte = 97

\* C13: a code that mapKey saw once with an unshifted key (byte u) and once
\* with a shifted key (byte s) has the entry <<u, s>> whichever came first;
\* a code seen once has both slots equal to its byte; the table stays as
\* built; and sendKey takes slot s when the shift bit is in its mask and
\* slot u otherwise (the clamp and the high bit are applied to that byte).
C13_EntryIndependentOfOrder ==
    /\ \A c \in DOMAIN keymap :
          LET U == {n \in DOMAIN observations :
                       /\ observations[n][1].code = c
                       /\ isShifted(observations[n][1]) = 0}
              S == {n \in DOMAIN observations :
                       /\ observations[n][1].code = c
                       /\ isShifted(observations[n][1]) = 1}
          IN  /\ (Cardinality(U) = 1 /\ Cardinality(S) = 1) =>
                    keymap[c] = <<observations[CHOOSE n \in U : TRUE][2],
                                  observations[CHOOSE n \in S : TRUE][2]>>
              /\ Cardinality(U \cup S) = 1 =>
                    LET b == observations[CHOOSE n \in U \cup S : TRUE][2]
                    IN  keymap[c] = <<b, b>>
    /\ [][keymap' = keymap]_vars
    /\ [][(pc = "sendKey" /\ pc' \in {"shift", "leds_sda_hi"}) =>
             LET x == IF BitAnd(modifiers', MOD_SFT) # 0
                      THEN keymap[key.code][2] ELSE keymap[key.code][1]
             IN  v' \in {x, BitAnd(x, 31), BitOr(x, 128),
                         BitOr(BitAnd(x, 31), 128)}]_vars

C13_Witness ==
    /\ Sent /\ key.code = 56 /\ modifiers = LSFT /\ byte = 63
    /\ keymap[56] = <<47, 63>> /\ keymap[30] = <<49, 33>>
    /\ keymap[42] = <<8, 8>>

\* C14: mapKeys never fails: in each of its three loops a lookup that finds
\* no key leaves the entry out, prints a diagnostic and goes on, so the
\* construction gets through all its lookups.
C14_MapKeysNeverFails ==
    /\ pc # "raised" /\ ret # "AttributeError"
    /\ Len(SelectSeq(diag, LAMBDA d : d = "nokey")) <= i
    /\ ret = "built" => i = Len(requests)

\* C15: checkClock sets active to true iff the probe took more than one
\* second and counted more than three edges: no edge gives false, 4 or more
\* edges over more than a second give true, 4 edges within a second or less
\* give false.
C15_ActiveIffSlowAndCounted ==
    (variant = "tidbit" /\ ret = "built") =>
        /\ active = (elapsed > 10 /\ ticks > 3)
        /\ ticks = 0 => ~active
        /\ (ticks >= 4 /\ elapsed > 10) => active
        /\ (ticks = 4 /\ elapsed <= 10) => ~active

C15_Witness ==
    /\ variant = "tidbit" /\ pc = "idle" /\ ret = "built"
    /\ ticks = 4 /\ elapsed = 10 /\ ~active

\* C16: after initialisation SDA, SCL and RDY change only in steps of
\* shiftByteOut: while a sendKey call is handled no other routine drives a
\* line.
C16_LinesOwnedByTransmitter ==
    [][(SDA' # SDA \/ SCL' # SCL \/ RDY' # RDY) => InShift]_vars

\* C17: in each variant MOD_CTL, MOD_SFT, MOD_ALT and MOD_CMD are pairwise
\* disjoint, so that sendKey's test of one mask answers for that category
\* of the mask rrrr llll and for no other.
C17_MasksDisjoint ==
    (Sent /\ key # None) =>
        LET M == <<MOD_CTL, MOD_SFT, MOD_ALT(variant), MOD_CMD(variant)>>
        IN  /\ \A a, b \in 1..4 : a # b => BitAnd(M[a], M[b]) = 0
            /\ \A a \in 1..4 :
                  (BitAnd(modifiers, M[a]) # 0)
                      <=> held(modifiers, Pow2(a - 1))

\* C18: every after_hid_send call replaces _pressed once, by the set
\* keyboard.keys_pressed, before sendKey runs, and nothing else writes it:
\* when the call returns (byte sent, key filtered, key unmapped, or no new
\* key) _pressed is the pressed set, and the mask sendKey works out is
\* taken from the held set of this call, the key being sent included.
C18_SnapshotBeforeSendKey ==
    /\ [][AfterHidSendStep => _pressed' = keys_pressed]_vars
    /\ [][~AfterHidSendStep => _pressed' = _pressed]_vars
    /\ [](variant = "kmk" /\ pc = "idle"
             /\ ret \in {"nokey", "filtered", "unmapped", "sent"}
          => _pressed = keys_pressed)
    /\ [](variant = "kmk" /\ pc # "idle"
          => key \in _pressed /\ _pressed = keys_pressed)
    /\ [][(variant = "kmk" /\ pc = "sendKey" /\ pc' # pc /\ ~filtered(key))
             => BitAnd(modifiers', OrAll(key.mods)) = OrAll(key.mods)]_vars

C18_Witness ==
    /\ variant = "kmk" /\ Sent /\ key = KC_QUES
    /\ _pressed = {KC_QUES, KC_LCTL} /\ keys_pressed = _pressed
    /\ modifiers = 3 /\ byte = 31

\* C19: every sendKey call that sends a byte makes exactly 8 rising edges
\* on SCL between its entry and its return, in both variants: no bit is
\* clocked ahead of the byte.
C19_EightEdgesPerKey ==
    (Sent /\ key # None) => Len(edges) = NBits

\* C20: in the self-clocked extension an after_hid_send call that finds no
\* key of keyboard.keys_pressed outside the snapshot calls sendKey not at
\* all and toggles no line; a key is handed to sendKey at most once while
\* it stays held, and it is one that was not in the snapshot; one call
\* sends at most one byte.
C20_NoNewKeyNoSend ==
    /\ [][(AfterHidSendStep /\ keys_pressed \subseteq _pressed) =>
             /\ pc' = "idle" /\ ret' = "nokey"
             /\ UNCHANGED <<SDA, SCL, RDY>>
             /\ edges' = <<>> /\ rdyPulses' = 0]_vars
    /\ [][(AfterHidSendStep /\ pc' = "sendKey") =>
             /\ key' \in keys_pressed \ _pressed
             /\ key' \notin delivered]_vars
    /\ [](delivered \subseteq keys_pressed)
    /\ [](variant = "kmk" => rdyPulses <= 1 /\ Len(edges) <= NBits)

C20_Witness ==
    /\ variant = "kmk" /\ pc = "idle" /\ ret = "nokey"
    /\ keys_pressed = {KC_A} /\ _pressed = {KC_A} /\ delivered = {KC_A}
    /\ edges = <<>>

\* C21: whenever the transmitter is idle, after construction and after
\* every return of sendKey or after_hid_send whatever keys and bytes went
\* before, SDA and SCL are low, and in the self-clocked variant RDY is low
\* as well.
C21_IdleLinesLow ==
    pc = "idle" => (~SDA /\ ~SCL /\ (variant = "kmk" => ~RDY))

C21_Witness ==
    /\ pc = "idle" /\ ret = "sent" /\ key # None
    /\ byte % 2 = 1 /\ edges[Len(edges)].sda
    /\ ~SDA /\ ~SCL /\ ~RDY

====
